---- MODULE Spec2Model ----
(***************************************************************************)
(* A state-machine model of src/buy.ts: the notification dispatcher with   *)
(* its dedup registries, the account cache, the qualification pipeline     *)
(* (watchlist, liquidity, mint authority, burn/lock polling) and the trade *)
(* execution engine (buy, sell with retries).                              *)
(*                                                                         *)
(* JavaScript runs one callback at a time: a step of the model is the code *)
(* that runs between two suspension points (await), so every action below  *)
(* carries a task from one await to the next, including every synchronous  *)
(* call made on the way.  What a collaborator answers (the account reader, *)
(* the transaction submitter) is drawn with \E when the await resumes.     *)
(***************************************************************************)
EXTENDS Integers, Sequences, FiniteSets, TLC

VARIABLES
    cfg,                      \* the imported constants of ./constants (lines 37-57)
    phase,                    \* runListener: "start", "listening" or "failed"
    subscriptions,            \* the onProgramAccountChange subscriptions registered
    quoteMinPoolSizeAmount,   \* raw amount of MIN_POOL_SIZE in the quote token
    existingLiquidityPools,   \* Set<string> of admitted pool ids
    existingOpenBookMarkets,  \* Set<string> of admitted market ids
    existingTokenAccounts,    \* Map<string, MinimalTokenAccountData>
    snipeList,                \* string[]
    threadSize,               \* the stage-4 counter
    poolTask,                 \* per pool id: the processRaydiumPool task it spawned
    marketSpawns,             \* per market id: how often processOpenBookMarket ran
    sellTask,                 \* the sell tasks spawned by the wallet subscription
    redelivered,              \* kinds of notification ignored as duplicates (observer)
    feed                      \* what the notification gateway delivers in this run

vars == << cfg, phase, subscriptions, quoteMinPoolSizeAmount, existingLiquidityPools,
           existingOpenBookMarkets, existingTokenAccounts, snipeList, threadSize,
           poolTask, marketSpawns, sellTask, redelivered, feed >>

-----------------------------------------------------------------------------
(* Bounds of the model *)

\* largest TRY_COUNT_FOR_BURNED_AND_LOCKED_CHECK a configuration may set
MaxTryCount == 2
\* largest MAX_SELL_RETRIES a configuration may set
MaxSellRetries == 2
\* cap on the build attempts of one sell that the model follows
MaxSellAttempts == 4
\* cap on the count a feed keeps of the stale notifications of one pool
MaxStale == 2
PoolIds == {"p1", "p2"}
MarketIds == {"k1", "k2"}
Mints == {"m1", "m2"}
\* sell tasks share nothing but the cache they read: one is followed
SellIds == {"s1"}

None == "none"

-----------------------------------------------------------------------------
(* Configuration: ./constants is read once at load time and never changes. *)

QUOTE_MINT == cfg.QUOTE_MINT
USE_SNIPE_LIST == cfg.USE_SNIPE_LIST
MIN_POOL_SIZE == cfg.MIN_POOL_SIZE
CHECK_IF_MINT_IS_RENOUNCED == cfg.CHECK_IF_MINT_IS_RENOUNCED
CHECK_IF_IS_BURNED == cfg.CHECK_IF_IS_BURNED
CHECK_IF_IS_LOCKED == cfg.CHECK_IF_IS_LOCKED
TRY_COUNT_FOR_BURNED_AND_LOCKED_CHECK == cfg.TRY_COUNT_FOR_BURNED_AND_LOCKED_CHECK
AUTO_SELL == cfg.AUTO_SELL
AUTO_SELL_DELAY == cfg.AUTO_SELL_DELAY
MAX_SELL_RETRIES == cfg.MAX_SELL_RETRIES

Configs ==
    [ QUOTE_MINT : {"WSOL", "USDC", "OTHER"},
      USE_SNIPE_LIST : BOOLEAN,
      MIN_POOL_SIZE : {0, 1},
      CHECK_IF_MINT_IS_RENOUNCED : BOOLEAN,
      CHECK_IF_IS_BURNED : BOOLEAN,
      CHECK_IF_IS_LOCKED : BOOLEAN,
      TRY_COUNT_FOR_BURNED_AND_LOCKED_CHECK : 0..MaxTryCount,
      AUTO_SELL : BOOLEAN,
      AUTO_SELL_DELAY : {0, 1},
      MAX_SELL_RETRIES : 1..MaxSellRetries ]

\* Token.WSOL has 9 decimals, the USDC token of init has 6
WsolDecimals == 9
UsdcDecimals == 6
quoteTokenDecimals == IF QUOTE_MINT = "WSOL" THEN WsolDecimals ELSE UsdcDecimals

RECURSIVE Pow10(_)
Pow10(n) == IF n = 0 THEN 1 ELSE 10 * Pow10(n - 1)

\* new TokenAmount(token, amount, isRaw).raw: a raw amount is kept, a decimal
\* amount is scaled by 10^decimals
TokenAmountRaw(decimals, amount, isRaw) ==
    IF isRaw THEN amount ELSE amount * Pow10(decimals)

\* the time runListener takes as runTimestamp
RunTimestamp == 1

-----------------------------------------------------------------------------
(* Account cache *)

\* getAssociatedTokenAddressSync(mint, wallet.publicKey): one address per mint
AssociatedAddress(mint) == << "ata", mint >>
\* the pubkey of a token account getTokenAccounts found in the wallet
WalletAccountAddress(mint) == << "acct", mint >>

\* new Map(): no record
EmptyMap == [ m \in {} |-> None ]

Has(cache, mint) == mint \in DOMAIN cache

\* existingTokenAccounts.set(mint, {address: ata, mint, market}): the record is
\* replaced whole, and the new one has no poolKeys
saveTokenAccount(cache, mint, market) ==
    (mint :> [address |-> AssociatedAddress(mint), poolKeys |-> None, market |-> market])
        @@ cache

\* createPoolKeys(accountId, accountData, tokenAccount.market!) reads the fields of
\* the market: "throw" when the record has none, else the keys of pool `id`
createPoolKeys(id, market) == IF market = None THEN "throw" ELSE id

-----------------------------------------------------------------------------
(* Watchlist *)

\* data.split('\n').map(trim).filter(a => a): blank lines are dropped
RECURSIVE ParseSnipeList(_)
ParseSnipeList(lines) ==
    IF lines = << >> THEN << >>
    ELSE IF Head(lines) = "" THEN ParseSnipeList(Tail(lines))
         ELSE << Head(lines) >> \o ParseSnipeList(Tail(lines))

Includes(list, key) == \E k \in 1..Len(list) : list[k] = key

\* shouldBuy never consulting the list
shouldBuy_NoList(key) == TRUE

\* lines 521-523
shouldBuy(key) == IF USE_SNIPE_LIST THEN Includes(snipeList, key) ELSE TRUE

\* the contents snipe-list.txt may have when it is read
SnipeFiles == { << >>, << "m1" >>, << "", "m2" >>, << "m1", "m2" >> }

loadSnipeList(lines) == IF ~USE_SNIPE_LIST THEN snipeList ELSE ParseSnipeList(lines)

-----------------------------------------------------------------------------
(* The task a pool notification spawns: processRaydiumPool, then               *)
(* checkBurnedAndLockedAndBuy, then buy.  pc names the await the task is       *)
(* suspended at; out says how it ended.  mint and liq are the event's; i,      *)
(* burned and locked are the locals of the stage-4 loop.  The other fields     *)
(* observe the task: the calls it made (nMint..), the answer of the authority  *)
(* read (mintAns), a burn or lock query that returned true (sawBurned,         *)
(* sawLocked), whether buy was called and whether it fetched the market        *)
(* (nFetch calls of getMinimalMarketV3, fetched when one returned), whether    *)
(* the mint was on the watchlist when the callback ran (listed), and the last  *)
(* answer a burn query got (burnAns), and the open time of the notification    *)
(* that spawned the task (openTime).                                           *)

IdleTask ==
    [ pc |-> "idle", out |-> None, mint |-> None, liq |-> 0, spawns |-> 0,
      i |-> 0, burned |-> FALSE, locked |-> FALSE,
      nMint |-> 0, nBurn |-> 0, nLock |-> 0, nDelay |-> 0,
      mintAns |-> [ kind |-> "unread", val |-> 0 ],
      sawBurned |-> FALSE, sawLocked |-> FALSE,
      inStage4 |-> FALSE, buyCalled |-> FALSE, fetched |-> FALSE,
      nSubmit |-> 0, nConfirm |-> 0,
      nFetch |-> 0, listed |-> FALSE,
      burnAns |-> [ kind |-> "unread", val |-> 0 ],
      openTime |-> 0 ]

\* A machine state: the running task with the shared variables it may write
Mach(t, ts, cache) == [ t |-> t, ts |-> ts, cache |-> cache ]

\* the task returns (or its promise settles) with outcome o
Finish(M, o) == [M EXCEPT !.t.pc = "done", !.t.out = o]

(* ---- buy (lines 330-404) ---- *)

\* the pool keys built into a local and never attached to the record
BuyBuild_KeysNotStored(M, id, buildOk) ==
    LET mint == M.t.mint
        keys == createPoolKeys(id, M.cache[mint].market)
    IN  IF keys = "throw" THEN Finish(M, "buyFailed")
        ELSE IF buildOk THEN [M EXCEPT !.t.pc = "buyBlockhash"]
             ELSE Finish(M, "buyFailed")

\* line 340 on, up to the await of getLatestBlockhash.  buildOk: whether
\* Liquidity.makeSwapFixedInInstruction returns; every throw lands in the catch
BuyBuild(M, id, buildOk) ==
    LET mint == M.t.mint
        keys == createPoolKeys(id, M.cache[mint].market)
    IN  IF keys = "throw" THEN Finish(M, "buyFailed")
        ELSE LET M1 == [M EXCEPT !.cache[mint].poolKeys = keys]
             IN  IF buildOk THEN [M1 EXCEPT !.t.pc = "buyBlockhash"]
                 ELSE Finish(M1, "buyFailed")

\* lines 331-338: look the record up; without one, await getMinimalMarketV3
BuyStart(M, id, buildOk) ==
    LET M1 == [M EXCEPT !.t.buyCalled = TRUE]
    IN  IF Has(M1.cache, M1.t.mint) THEN BuyBuild(M1, id, buildOk)
        ELSE [M1 EXCEPT !.t.pc = "buyFetch", !.t.nFetch = M1.t.nFetch + 1]

\* lines 336-340 after the fetch: the fetched market is saved, the keys are built
BuyAfterFetch(M, id, market, buildOk) ==
    BuyBuild([M EXCEPT !.cache = saveTokenAccount(M.cache, M.t.mint, market)], id, buildOk)

(* ---- checkBurnedAndLockedAndBuy (lines 214-254) ---- *)

\* line 215: the condition that opens the stage-4 block
Stage4Enabled == CHECK_IF_IS_LOCKED \/ CHECK_IF_IS_LOCKED

\* lines 235-253: after the loop
AfterLoop(M, id, buildOk) ==
    IF CHECK_IF_IS_BURNED /\ M.t.burned # TRUE
    THEN Finish([M EXCEPT !.ts = M.ts - 1, !.t.inStage4 = FALSE], "rejBurn")
    ELSE IF CHECK_IF_IS_LOCKED /\ M.t.locked # TRUE
    THEN Finish([M EXCEPT !.ts = M.ts - 1, !.t.inStage4 = FALSE], "rejLock")
    ELSE BuyStart([M EXCEPT !.ts = M.ts - 1, !.t.inStage4 = FALSE], id, buildOk)

\* lines 227-232: the lock part of one attempt, then the delay
LoopLock(M) ==
    IF CHECK_IF_IS_LOCKED /\ M.t.locked # TRUE
    THEN [M EXCEPT !.t.pc = "lockQuery", !.t.nLock = M.t.nLock + 1]
    ELSE [M EXCEPT !.t.pc = "delay", !.t.nDelay = M.t.nDelay + 1]

\* the loop condition with <= for <
LoopHead_OffByOne(M, id, buildOk) ==
    IF M.t.i <= TRY_COUNT_FOR_BURNED_AND_LOCKED_CHECK
    THEN IF CHECK_IF_IS_BURNED /\ M.t.burned # TRUE
         THEN [M EXCEPT !.t.pc = "burnQuery", !.t.nBurn = M.t.nBurn + 1]
         ELSE LoopLock(M)
    ELSE AfterLoop(M, id, buildOk)

\* lines 220-225: the loop condition and the burn part of one attempt
LoopHead(M, id, buildOk) ==
    IF M.t.i < TRY_COUNT_FOR_BURNED_AND_LOCKED_CHECK
    THEN IF CHECK_IF_IS_BURNED /\ M.t.burned # TRUE
         THEN [M EXCEPT !.t.pc = "burnQuery", !.t.nBurn = M.t.nBurn + 1]
         ELSE LoopLock(M)
    ELSE AfterLoop(M, id, buildOk)

checkBurnedAndLockedAndBuy(M, id, buildOk) ==
    IF Stage4Enabled
    THEN LoopHead([M EXCEPT !.ts = M.ts + 1, !.t.inStage4 = TRUE,
                            !.t.burned = FALSE, !.t.locked = FALSE, !.t.i = 0],
                  id, buildOk)
    ELSE BuyStart(M, id, buildOk)

(* ---- the collaborators' answers ---- *)

\* What solanaConnection.getAccountInfo gives a query: it throws, finds no
\* account (null), or returns data whose decoded field is val; "big" is a
\* decoded u64 above Number.MAX_SAFE_INTEGER
Answer(kind, val) == [ kind |-> kind, val |-> val ]
MintAnswers == { Answer("throw", 0), Answer("none", 0) }
                   \cup { Answer("data", v) : v \in {0, 1} }      \* mintAuthorityOption
BurnAnswers == { Answer("throw", 0), Answer("none", 0) }
                   \cup { Answer("data", v) : v \in {0, 1} }      \* last 8 bytes
LockAnswers == { Answer("throw", 0), Answer("none", 0), Answer("big", 0) }
                   \cup { Answer("data", v) : v \in {0, 1, 6} }   \* status

\* what an async query settles with: a value, or a rejection
Returned(v) == [ threw |-> FALSE, value |-> v ]
Thrown == [ threw |-> TRUE, value |-> FALSE ]

\* checkMintable (lines 200-212): "true", "false" or "undefined"; never throws
checkMintable(ans) ==
    IF ans.kind = "throw" THEN "undefined"
    ELSE IF ans.kind = "none" THEN "undefined"
    ELSE IF ans.val = 0 THEN "true" ELSE "false"

\* checkBurned (lines 256-284): the catch rethrows
checkBurned(ans) ==
    IF ans.kind = "throw" THEN Thrown
    ELSE IF ans.kind = "none" THEN Returned(TRUE)
    ELSE IF ans.val < 0 THEN Returned(TRUE)
    ELSE Returned(FALSE)

\* isLiquidityLocked (lines 286-311): a missing account throws, the catch rethrows
isLiquidityLocked(ans) ==
    IF ans.kind = "throw" THEN Thrown
    ELSE IF ans.kind = "none" THEN Thrown
    ELSE IF ans.kind = "big" THEN Returned(FALSE)
    ELSE Returned(ans.val = 1)

(* ---- processRaydiumPool (lines 166-198) ---- *)

\* line 175: poolSize.lt(quoteMinPoolSizeAmount), both as raw amounts
PoolTooSmall(liq) ==
    TokenAmountRaw(quoteTokenDecimals, liq, TRUE) < quoteMinPoolSizeAmount

\* the pipeline with the mint-authority read placed before the liquidity filter
processRaydiumPool_MintFirst(M, id, buildOk) ==
    IF ~shouldBuy(M.t.mint) THEN Finish(M, "rejWatch")
    ELSE IF CHECK_IF_MINT_IS_RENOUNCED
         THEN [M EXCEPT !.t.pc = "mintRead", !.t.nMint = M.t.nMint + 1]
    ELSE IF quoteMinPoolSizeAmount # 0 /\ PoolTooSmall(M.t.liq) THEN Finish(M, "rejLiq")
    ELSE checkBurnedAndLockedAndBuy(M, id, buildOk)

processRaydiumPool(M, id, buildOk) ==
    IF ~shouldBuy(M.t.mint) THEN Finish(M, "rejWatch")
    ELSE IF quoteMinPoolSizeAmount # 0 /\ PoolTooSmall(M.t.liq) THEN Finish(M, "rejLiq")
    ELSE IF CHECK_IF_MINT_IS_RENOUNCED
         THEN [M EXCEPT !.t.pc = "mintRead", !.t.nMint = M.t.nMint + 1]
         ELSE checkBurnedAndLockedAndBuy(M, id, buildOk)

\* the test of line 191 rejecting only an answer of false
AfterMintable_RejectOnlyFalse(M, id, mintOption, buildOk) ==
    IF mintOption = "false" THEN Finish(M, "rejMint")
    ELSE checkBurnedAndLockedAndBuy(M, id, buildOk)

\* lines 189-197: the answer of checkMintable
AfterMintable(M, id, mintOption, buildOk) ==
    IF mintOption # "true" THEN Finish(M, "rejMint")
    ELSE checkBurnedAndLockedAndBuy(M, id, buildOk)

-----------------------------------------------------------------------------
(* sell (lines 406-502) *)

\* lines 416-425: the record sell looks up exists and carries pool keys
HasPoolKeys(cache, mint) == Has(cache, mint) /\ cache[mint].poolKeys # None

\* AccountLayout.decode(...).amount is a u64 decoded as a bigint; the
\* BigNumberish parameter of sell also admits a number
DecodeAmount(val) == [ kind |-> "bigint", val |-> val ]

\* line 427: amount === 0, strict equality with the number 0
StrictEqualsZero(amount) == amount.kind = "number" /\ amount.val = 0

IdleSell ==
    [ pc |-> "idle", out |-> None, mint |-> None, amount |-> DecodeAmount(0),
      sold |-> FALSE, retries |-> 0,
      attempts |-> 0, nSubmit |-> 0, nBackoff |-> 0, nThrown |-> 0, nConfErr |-> 0,
      delayed |-> FALSE, keysAtStart |-> FALSE ]

SellReturn(S, o) == [S EXCEPT !.pc = "done", !.out = o]

\* line 494-496: the catch block starts the 100 ms wait
SellCatch(S) == [S EXCEPT !.pc = "backoff", !.nBackoff = S.nBackoff + 1,
                          !.nThrown = S.nThrown + 1]

\* lines 415-451: one pass of the do body up to the await of getLatestBlockhash
SellAttempt(S, cache, buildOk) ==
    IF ~Has(cache, S.mint) THEN SellReturn(S, "noAccount")
    ELSE IF cache[S.mint].poolKeys = None THEN SellReturn(S, "noPoolKeys")
    ELSE IF StrictEqualsZero(S.amount) THEN SellReturn(S, "empty")
    ELSE LET S1 == [S EXCEPT !.attempts = S.attempts + 1]
         IN  IF buildOk THEN [S1 EXCEPT !.pc = "blockhash"] ELSE SellCatch(S1)

\* the loop condition with <= for <
SellLoopCond_OffByOne(S, cache, buildOk) ==
    IF ~S.sold /\ S.retries <= MAX_SELL_RETRIES
    THEN SellAttempt(S, cache, buildOk)
    ELSE SellReturn(S, IF S.sold THEN "sold" ELSE "exhausted")

\* line 501: while (!sold && retries < MAX_SELL_RETRIES)
SellLoopCond(S, cache, buildOk) ==
    IF ~S.sold /\ S.retries < MAX_SELL_RETRIES
    THEN SellAttempt(S, cache, buildOk)
    ELSE SellReturn(S, IF S.sold THEN "sold" ELSE "exhausted")

\* lines 478-482: a confirmation error `continue`s to the loop condition
SellConfirmError(S, cache, buildOk) ==
    SellLoopCond([S EXCEPT !.nConfErr = S.nConfErr + 1], cache, buildOk)

\* lines 496-501: after the wait, retries++ and the loop condition
SellAfterBackoff(S, cache, buildOk) ==
    SellLoopCond([S EXCEPT !.retries = S.retries + 1], cache, buildOk)

\* sell looking the record up before the pre-sell delay instead of after it
SellStart_LookupFirst(S, cache, buildOk) ==
    IF ~Has(cache, S.mint) THEN SellReturn(S, "noAccount")
    ELSE IF cache[S.mint].poolKeys = None THEN SellReturn(S, "noPoolKeys")
    ELSE IF AUTO_SELL_DELAY > 0 THEN [S EXCEPT !.pc = "delay"]
    ELSE SellAttempt(S, cache, buildOk)

\* lines 407-414: the start of sell
SellStart(S, cache, buildOk) ==
    IF AUTO_SELL_DELAY > 0 THEN [S EXCEPT !.pc = "delay"]
    ELSE SellAttempt(S, cache, buildOk)

-----------------------------------------------------------------------------
(* runListener (lines 525-622) *)

QuoteMintKey == QUOTE_MINT

\* runListener registering its subscriptions without waiting for init to return
RunListener_InitNotAwaited ==
    /\ phase = "start"
    /\ UNCHANGED << cfg, existingLiquidityPools, existingOpenBookMarkets, threadSize,
                    poolTask, marketSpawns, sellTask, redelivered, feed >>
    /\ subscriptions' = {"raydium", "openbook"}
                           \cup (IF AUTO_SELL THEN {"wallet"} ELSE {})
    /\ IF QUOTE_MINT \notin {"WSOL", "USDC"}
       THEN /\ phase' = "failed"
            /\ UNCHANGED << quoteMinPoolSizeAmount, existingTokenAccounts, snipeList >>
       ELSE \E held \in SUBSET {QuoteMintKey, "m1"}, lines \in SnipeFiles :
            /\ quoteMinPoolSizeAmount' =
                   TokenAmountRaw(quoteTokenDecimals, MIN_POOL_SIZE, FALSE)
            /\ existingTokenAccounts' =
                   [ m \in held |-> [ address |-> WalletAccountAddress(m),
                                      poolKeys |-> None, market |-> None ] ]
            /\ IF QuoteMintKey \notin held
               THEN /\ phase' = "failed"
                    /\ UNCHANGED snipeList
               ELSE /\ snipeList' = loadSnipeList(lines)
                    /\ phase' = "listening"

\* init (lines 84-149) and, when it returns, the subscriptions of runListener.
\* held: the mints of the token accounts getTokenAccounts finds in the wallet
RunListener ==
    /\ phase = "start"
    /\ UNCHANGED << cfg, existingLiquidityPools, existingOpenBookMarkets, threadSize,
                    poolTask, marketSpawns, sellTask, redelivered, feed >>
    /\ IF QUOTE_MINT \notin {"WSOL", "USDC"}
       THEN /\ phase' = "failed"
            /\ UNCHANGED << subscriptions, quoteMinPoolSizeAmount,
                            existingTokenAccounts, snipeList >>
       ELSE \E held \in SUBSET {QuoteMintKey, "m1"}, lines \in SnipeFiles :
            /\ quoteMinPoolSizeAmount' =
                   TokenAmountRaw(quoteTokenDecimals, MIN_POOL_SIZE, FALSE)
            /\ existingTokenAccounts' =
                   [ m \in held |-> [ address |-> WalletAccountAddress(m),
                                      poolKeys |-> None, market |-> None ] ]
            /\ IF QuoteMintKey \notin held
               THEN /\ phase' = "failed"
                    /\ UNCHANGED << subscriptions, snipeList >>
               ELSE /\ snipeList' = loadSnipeList(lines)
                    /\ phase' = "listening"
                    /\ subscriptions' = {"raydium", "openbook"}
                           \cup (IF AUTO_SELL THEN {"wallet"} ELSE {})

\* setInterval(loadSnipeList, SNIPE_LIST_REFRESH_INTERVAL), lines 619-621
SnipeListTimer ==
    /\ phase = "listening"
    /\ USE_SNIPE_LIST
    /\ \E lines \in SnipeFiles : snipeList' = loadSnipeList(lines)
    /\ UNCHANGED << cfg, phase, subscriptions, quoteMinPoolSizeAmount,
                    existingLiquidityPools, existingOpenBookMarkets,
                    existingTokenAccounts, threadSize, poolTask, marketSpawns,
                    sellTask, redelivered, feed >>

Apply(id, M) ==
    /\ poolTask' = [poolTask EXCEPT ![id] = M.t]
    /\ threadSize' = M.ts
    /\ existingTokenAccounts' = M.cache

PoolFrame == UNCHANGED << cfg, phase, subscriptions, quoteMinPoolSizeAmount,
                          existingLiquidityPools, existingOpenBookMarkets, snipeList,
                          marketSpawns, sellTask, redelivered, feed >>

\* the admission test without the registry lookup
AdmitPool_NoDedup(poolOpenTime, existing) == poolOpenTime > RunTimestamp

\* the admission test with >= for >
AdmitPool_OpenAtStart(poolOpenTime, existing) ==
    poolOpenTime >= RunTimestamp /\ ~existing

\* a feed that keeps a log counts there, up to MaxStale, the notifications of a
\* pool the callback dropped while the pool was not in the registry
LogStale(f, key) ==
    IF "stale" \in DOMAIN f
    THEN [f EXCEPT !.stale[key] = IF @ < MaxStale THEN @ + 1 ELSE @]
    ELSE f

\* line 536: the admission test of the raydium callback
AdmitPool(poolOpenTime, existing) == poolOpenTime > RunTimestamp /\ ~existing

\* the raydium subscription callback (lines 530-540)
RaydiumCallback ==
    /\ "raydium" \in subscriptions
    /\ \E key \in feed.pools, baseMint \in feed.mints, liq \in feed.liqs,
          poolOpenTime \in feed.openTimes, buildOk \in BOOLEAN :
          LET existing == key \in existingLiquidityPools
          IN  IF AdmitPool(poolOpenTime, existing)
              THEN /\ existingLiquidityPools' = existingLiquidityPools \cup {key}
                   /\ Apply(key, processRaydiumPool(
                          Mach([poolTask[key] EXCEPT !.mint = baseMint, !.liq = liq,
                                    !.spawns = poolTask[key].spawns + 1,
                                    !.listed = Includes(snipeList, baseMint),
                                    !.openTime = poolOpenTime],
                               threadSize, existingTokenAccounts),
                          key, buildOk))
                   /\ UNCHANGED << redelivered, feed >>
              ELSE /\ redelivered' =
                          IF existing THEN redelivered \cup {"pool"} ELSE redelivered
                   /\ feed' = IF existing THEN feed ELSE LogStale(feed, key)
                   /\ UNCHANGED << existingLiquidityPools, poolTask, threadSize,
                                   existingTokenAccounts >>
    /\ UNCHANGED << cfg, phase, subscriptions, quoteMinPoolSizeAmount,
                    existingOpenBookMarkets, snipeList, marketSpawns, sellTask >>

\* processOpenBookMarket saving the market without the lookup of line 319
processOpenBookMarket_NoLookup(cache, decoded, baseMint, market) ==
    IF ~decoded THEN cache
    ELSE saveTokenAccount(cache, baseMint, market)

\* processOpenBookMarket (lines 313-328); decoded: whether the layout decodes
processOpenBookMarket(cache, decoded, baseMint, market) ==
    IF ~decoded THEN cache
    ELSE IF Has(cache, baseMint) THEN cache
    ELSE saveTokenAccount(cache, baseMint, market)

\* line 570: the admission test of the openbook callback
AdmitMarket(existing) == ~existing

\* the openbook subscription callback (lines 567-574)
OpenBookCallback ==
    /\ "openbook" \in subscriptions
    /\ \E key \in feed.markets, baseMint \in feed.mints, decoded \in BOOLEAN :
          LET existing == key \in existingOpenBookMarkets
          IN  IF AdmitMarket(existing)
              THEN /\ existingOpenBookMarkets' = existingOpenBookMarkets \cup {key}
                   /\ marketSpawns' = [marketSpawns EXCEPT ![key] = @ + 1]
                   /\ existingTokenAccounts' =
                          processOpenBookMarket(existingTokenAccounts, decoded,
                                                baseMint, key)
                   /\ UNCHANGED redelivered
              ELSE /\ redelivered' = redelivered \cup {"market"}
                   /\ UNCHANGED << existingOpenBookMarkets, marketSpawns,
                                   existingTokenAccounts >>
    /\ UNCHANGED << cfg, phase, subscriptions, quoteMinPoolSizeAmount,
                    existingLiquidityPools, snipeList, threadSize, poolTask,
                    sellTask, feed >>

-----------------------------------------------------------------------------
(* The steps of a pool task: each resumes one await *)

ThisMach(id) == Mach(poolTask[id], threadSize, existingTokenAccounts)

\* the promise of checkBurnedAndLockedAndBuy rejects and nothing handles it:
\* processRaydiumPool calls it without await or catch (line 197)
Escape(M) == Finish([M EXCEPT !.t.inStage4 = FALSE], "escaped")

\* await checkMintable(poolState.baseMint), line 189
MintRead(id) ==
    /\ poolTask[id].pc = "mintRead"
    /\ \E ans \in MintAnswers, buildOk \in BOOLEAN :
          Apply(id, AfterMintable([ThisMach(id) EXCEPT !.t.mintAns = ans], id,
                                  checkMintable(ans), buildOk))
    /\ PoolFrame

\* line 223: burned = await checkBurned(...)
BurnSettled(M, r) ==
    IF r.threw THEN Escape(M)
    ELSE LoopLock([M EXCEPT !.t.burned = r.value,
                            !.t.sawBurned = M.t.sawBurned \/ r.value])

BurnQuery(id) ==
    /\ poolTask[id].pc = "burnQuery"
    /\ \E ans \in BurnAnswers :
          Apply(id, BurnSettled([ThisMach(id) EXCEPT !.t.burnAns = ans],
                                checkBurned(ans)))
    /\ PoolFrame

\* line 229: locked = await isLiquidityLocked(...)
LockSettled(M, r) ==
    IF r.threw THEN Escape(M)
    ELSE [M EXCEPT !.t.locked = r.value, !.t.sawLocked = M.t.sawLocked \/ r.value,
                   !.t.pc = "delay", !.t.nDelay = M.t.nDelay + 1]

LockQuery(id) ==
    /\ poolTask[id].pc = "lockQuery"
    /\ \E ans \in LockAnswers :
          Apply(id, LockSettled(ThisMach(id), isLiquidityLocked(ans)))
    /\ PoolFrame

\* line 232 resumes: i++ and the loop condition
DelayDone(id) ==
    /\ poolTask[id].pc = "delay"
    /\ \E buildOk \in BOOLEAN :
          Apply(id, LoopHead([ThisMach(id) EXCEPT !.t.i = poolTask[id].i + 1],
                             id, buildOk))
    /\ PoolFrame

\* line 336 resumes: getMinimalMarketV3 returned the market of the pool, or threw
MarketOf(id) == IF id = "p1" THEN "k1" ELSE "k2"

BuyFetched(id) ==
    /\ poolTask[id].pc = "buyFetch"
    /\ \E ok \in BOOLEAN, buildOk \in BOOLEAN :
          Apply(id, IF ok THEN BuyAfterFetch([ThisMach(id) EXCEPT !.t.fetched = TRUE],
                                             id, MarketOf(id), buildOk)
                    ELSE Finish(ThisMach(id), "buyFailed"))
    /\ PoolFrame

\* line 355 resumes: the transaction is built, signed and handed to
\* sendRawTransaction (line 375)
BuyBlockhash(id) ==
    /\ poolTask[id].pc = "buyBlockhash"
    /\ \E ok \in BOOLEAN :
          Apply(id, IF ok THEN [ThisMach(id) EXCEPT !.t.pc = "buySend",
                                                    !.t.nSubmit = poolTask[id].nSubmit + 1]
                    ELSE Finish(ThisMach(id), "buyFailed"))
    /\ PoolFrame

\* line 375 resumes: confirmTransaction is called (line 379)
BuySent(id) ==
    /\ poolTask[id].pc = "buySend"
    /\ \E ok \in BOOLEAN :
          Apply(id, IF ok THEN [ThisMach(id) EXCEPT !.t.pc = "buyConfirm",
                                                    !.t.nConfirm = poolTask[id].nConfirm + 1]
                    ELSE Finish(ThisMach(id), "buyFailed"))
    /\ PoolFrame

\* a confirmation error sending buy back to build and submit again, as sell does
BuyConfirmed_RetryOnErr(id) ==
    /\ poolTask[id].pc = "buyConfirm"
    /\ \E r \in {"ok", "err", "throw"} :
          Apply(id, IF r = "err" /\ poolTask[id].nSubmit < 2
                    THEN [ThisMach(id) EXCEPT !.t.pc = "buyBlockhash"]
                    ELSE Finish(ThisMach(id),
                                IF r = "ok" THEN "bought"
                                ELSE IF r = "err" THEN "buyUnconfirmed" ELSE "buyFailed"))
    /\ PoolFrame

\* line 379 resumes: confirmed, confirmed with an error, or thrown
BuyConfirmed(id) ==
    /\ poolTask[id].pc = "buyConfirm"
    /\ \E r \in {"ok", "err", "throw"} :
          Apply(id, Finish(ThisMach(id),
                           IF r = "ok" THEN "bought"
                           ELSE IF r = "err" THEN "buyUnconfirmed" ELSE "buyFailed"))
    /\ PoolFrame

-----------------------------------------------------------------------------
(* The wallet subscription and the steps of a sell task *)

SellFrame == UNCHANGED << cfg, phase, subscriptions, quoteMinPoolSizeAmount,
                          existingLiquidityPools, existingOpenBookMarkets,
                          existingTokenAccounts, snipeList, threadSize, poolTask,
                          marketSpawns, redelivered, feed >>

\* the wallet subscription callback (lines 590-598); isQuote: the account is
\* quoteTokenAssociatedAddress
WalletCallback ==
    /\ "wallet" \in subscriptions
    /\ \E isQuote \in BOOLEAN, mint \in feed.mints, val \in feed.amounts,
          buildOk \in BOOLEAN :
          IF isQuote THEN UNCHANGED sellTask
          ELSE \E s \in SellIds :
                  /\ sellTask[s].pc = "idle"
                  /\ sellTask' = [sellTask EXCEPT ![s] =
                         SellStart([IdleSell EXCEPT !.mint = mint,
                                                    !.amount = DecodeAmount(val),
                                                    !.keysAtStart = HasPoolKeys(existingTokenAccounts, mint)],
                                   existingTokenAccounts, buildOk)]
    /\ SellFrame

SellStep(s, S) ==
    /\ S.attempts <= MaxSellAttempts
    /\ sellTask' = [sellTask EXCEPT ![s] = S]

\* line 411 resumes
SellDelayDone(s) ==
    /\ sellTask[s].pc = "delay"
    /\ \E buildOk \in BOOLEAN :
          SellStep(s, SellAttempt([sellTask[s] EXCEPT !.delayed = TRUE],
                                  existingTokenAccounts, buildOk))
    /\ SellFrame

\* line 451 resumes; the transaction goes to sendRawTransaction (line 466)
SellBlockhash(s) ==
    /\ sellTask[s].pc = "blockhash"
    /\ \E ok \in BOOLEAN :
          SellStep(s, IF ok THEN [sellTask[s] EXCEPT !.pc = "send",
                                                     !.nSubmit = sellTask[s].nSubmit + 1]
                      ELSE SellCatch(sellTask[s]))
    /\ SellFrame

\* line 466 resumes; confirmTransaction is called (line 470)
SellSent(s) ==
    /\ sellTask[s].pc = "send"
    /\ \E ok \in BOOLEAN :
          SellStep(s, IF ok THEN [sellTask[s] EXCEPT !.pc = "confirm"]
                      ELSE SellCatch(sellTask[s]))
    /\ SellFrame

\* line 470 resumes
SellConfirmed(s) ==
    /\ sellTask[s].pc = "confirm"
    /\ \E r \in {"ok", "err", "throw"}, buildOk \in BOOLEAN :
          SellStep(s,
              IF r = "ok"
              THEN SellLoopCond([sellTask[s] EXCEPT !.sold = TRUE],
                                existingTokenAccounts, buildOk)
              ELSE IF r = "err"
              THEN SellConfirmError(sellTask[s], existingTokenAccounts, buildOk)
              ELSE SellCatch(sellTask[s]))
    /\ SellFrame

\* line 496 resumes
SellBackoffDone(s) ==
    /\ sellTask[s].pc = "backoff"
    /\ \E buildOk \in BOOLEAN :
          SellStep(s, SellAfterBackoff(sellTask[s], existingTokenAccounts, buildOk))
    /\ SellFrame

-----------------------------------------------------------------------------
(* Specifications *)

InitWith(configs, feeds) ==
    /\ cfg \in configs
    /\ feed \in feeds
    /\ phase = "start"
    /\ subscriptions = {}
    /\ quoteMinPoolSizeAmount = 0
    /\ existingLiquidityPools = {}
    /\ existingOpenBookMarkets = {}
    /\ existingTokenAccounts = EmptyMap
    /\ snipeList = << >>
    /\ threadSize = 0
    /\ poolTask = [ id \in PoolIds |-> IdleTask ]
    /\ marketSpawns = [ k \in MarketIds |-> 0 ]
    /\ sellTask = [ s \in SellIds |-> IdleSell ]
    /\ redelivered = {}

QualifyStep(id) ==
    \/ MintRead(id)
    \/ BurnQuery(id)
    \/ LockQuery(id)
    \/ DelayDone(id)

BuyStep(id) ==
    \/ BuyFetched(id)
    \/ BuyBlockhash(id)
    \/ BuySent(id)
    \/ BuyConfirmed(id)

SellTaskStep(s) ==
    \/ SellDelayDone(s)
    \/ SellBlockhash(s)
    \/ SellSent(s)
    \/ SellConfirmed(s)
    \/ SellBackoffDone(s)

(* Spec: the dispatcher, the pipeline and buy with two pools, two markets and  *)
(* two mints, so that tasks race on the registries and on the account cache.   *)
(* The filters are all off or all on.                                          *)
ListenConfigs ==
    { c \in Configs : /\ c.QUOTE_MINT = "WSOL"
                      /\ ~c.AUTO_SELL /\ c.AUTO_SELL_DELAY = 0
                      /\ c.MAX_SELL_RETRIES = 1
                      /\ ~c.USE_SNIPE_LIST /\ c.MIN_POOL_SIZE = 0
                      /\ c.TRY_COUNT_FOR_BURNED_AND_LOCKED_CHECK = 1
                      /\ c.CHECK_IF_IS_BURNED = c.CHECK_IF_IS_LOCKED
                      /\ c.CHECK_IF_MINT_IS_RENOUNCED = c.CHECK_IF_IS_LOCKED }

ListenFeeds ==
    { [ pools |-> PoolIds, markets |-> MarketIds, mints |-> Mints,
        liqs |-> {1000000000}, openTimes |-> {RunTimestamp, RunTimestamp + 1},
        amounts |-> {} ] }

Init == InitWith(ListenConfigs, ListenFeeds)

Next ==
    \/ RunListener
    \/ RaydiumCallback
    \/ OpenBookCallback
    \/ \E id \in PoolIds : QualifyStep(id) \/ BuyStep(id)

Spec == Init /\ [][Next]_vars

(* SpecQualify: one pool event at a time through the pipeline, under every     *)
(* configuration of the filters, with amounts on both sides of the threshold   *)
(* and a watchlist that is reloaded while the task runs; the quote preset may  *)
(* be one init does not support.                                               *)
QualifyConfigs ==
    { c \in Configs : /\ ~c.AUTO_SELL /\ c.AUTO_SELL_DELAY = 0
                      /\ c.MAX_SELL_RETRIES = 1 }

QualifyFeeds ==
    { [ pools |-> {"p1"}, markets |-> {"k1"}, mints |-> {"m1"},
        liqs |-> {999999, 1000000, 999999999, 1000000000},
        openTimes |-> {RunTimestamp + 1}, amounts |-> {} ] }

InitQualify == InitWith(QualifyConfigs, QualifyFeeds)

NextQualify ==
    \/ RunListener
    \/ SnipeListTimer
    \/ RaydiumCallback
    \/ OpenBookCallback
    \/ \E id \in PoolIds : QualifyStep(id) \/ BuyStep(id)

SpecQualify == InitQualify /\ [][NextQualify]_vars

(* SpecSell: the wallet subscription and sell, beside one pool whose buy       *)
(* attaches the pool keys sell needs.                                          *)
SellConfigs ==
    { c \in Configs : /\ c.QUOTE_MINT = "WSOL"
                      /\ c.AUTO_SELL
                      /\ ~c.USE_SNIPE_LIST /\ c.MIN_POOL_SIZE = 0
                      /\ ~c.CHECK_IF_MINT_IS_RENOUNCED
                      /\ ~c.CHECK_IF_IS_BURNED /\ ~c.CHECK_IF_IS_LOCKED
                      /\ c.TRY_COUNT_FOR_BURNED_AND_LOCKED_CHECK = 0 }

SellFeeds ==
    { [ pools |-> {"p1"}, markets |-> {"k1"}, mints |-> {"m1"},
        liqs |-> {1000000000}, openTimes |-> {RunTimestamp + 1},
        amounts |-> {0, 1} ] }

InitSell == InitWith(SellConfigs, SellFeeds)

NextSell ==
    \/ RunListener
    \/ RaydiumCallback
    \/ OpenBookCallback
    \/ WalletCallback
    \/ \E id \in PoolIds : BuyStep(id)
    \/ \E s \in SellIds : SellTaskStep(s)

SpecSell == InitSell /\ [][NextSell]_vars

(* SpecAdmit: the raydium callback under notifications whose open time lies    *)
(* before, at and after the start of the listener, for two pools, with the     *)
(* filters off so that an admitted pool goes straight to buy.  The feed logs   *)
(* the notifications dropped for a pool not yet in the registry.               *)
AdmitConfigs ==
    { c \in Configs : /\ c.QUOTE_MINT = "WSOL"
                      /\ ~c.AUTO_SELL /\ c.AUTO_SELL_DELAY = 0
                      /\ c.MAX_SELL_RETRIES = 1
                      /\ ~c.USE_SNIPE_LIST /\ c.MIN_POOL_SIZE = 0
                      /\ ~c.CHECK_IF_MINT_IS_RENOUNCED
                      /\ ~c.CHECK_IF_IS_BURNED /\ ~c.CHECK_IF_IS_LOCKED
                      /\ c.TRY_COUNT_FOR_BURNED_AND_LOCKED_CHECK = 0 }

AdmitFeeds ==
    { [ pools |-> PoolIds, markets |-> {"k1"}, mints |-> {"m1"},
        liqs |-> {1000000000},
        openTimes |-> {RunTimestamp - 1, RunTimestamp, RunTimestamp + 1},
        amounts |-> {}, stale |-> [ id \in PoolIds |-> 0 ] ] }

InitAdmit == InitWith(AdmitConfigs, AdmitFeeds)

NextAdmit ==
    \/ RunListener
    \/ RaydiumCallback
    \/ OpenBookCallback
    \/ \E id \in PoolIds : BuyStep(id)

SpecAdmit == InitAdmit /\ [][NextAdmit]_vars

-----------------------------------------------------------------------------
(* Claims *)

\* C1: each pool id spawns processRaydiumPool at most once and each market id
\* spawns processOpenBookMarket at most once, whatever is delivered again: an id
\* is in its registry exactly when it was admitted once, the two registries only
\* grow, and a notification for an id already in a registry spawns nothing.
C1_AdmitOnce ==
    [][ /\ existingLiquidityPools \subseteq existingLiquidityPools'
        /\ existingOpenBookMarkets \subseteq existingOpenBookMarkets'
        /\ \A id \in PoolIds :
              /\ poolTask'[id].spawns = IF id \in existingLiquidityPools' THEN 1 ELSE 0
              /\ id \in existingLiquidityPools =>
                     poolTask'[id].spawns = poolTask[id].spawns
        /\ \A k \in MarketIds :
              /\ marketSpawns'[k] = IF k \in existingOpenBookMarkets' THEN 1 ELSE 0
              /\ k \in existingOpenBookMarkets => marketSpawns'[k] = marketSpawns[k]
      ]_vars

\* both kinds of notification were delivered again after every id was admitted
C1_Witness ==
    /\ redelivered = {"pool", "market"}
    /\ \A id \in PoolIds : id \in existingLiquidityPools /\ poolTask[id].spawns = 1
    /\ \A k \in MarketIds : k \in existingOpenBookMarkets /\ marketSpawns[k] = 1

\* C2: within one invocation of sell the number of build/submit attempts never
\* exceeds MAX_SELL_RETRIES, whatever the collaborators answer.
C2_AttemptsBounded ==
    \A s \in SellIds : sellTask[s].attempts <= MAX_SELL_RETRIES

\* C3: a sell whose amount is zero, as the wallet subscription delivers it, makes
\* no build attempt and no submission, whatever the cache holds.
C3_ZeroAmountNoSubmit ==
    \A s \in SellIds :
        (sellTask[s].pc # "idle" /\ sellTask[s].amount.val = 0) =>
            (sellTask[s].attempts = 0 /\ sellTask[s].nSubmit = 0)

\* C4: with pool keys cached and a non-zero amount, a sell whose every attempt
\* throws (in build, submit or confirm) makes exactly MAX_SELL_RETRIES attempts,
\* waits the backoff after each, and returns unsold; while it runs it never
\* exceeds the budget.
C4_AlwaysThrowing ==
    \A s \in SellIds :
        LET S == sellTask[s]
        IN  (S.attempts >= 1 /\ S.nConfErr = 0 /\ ~S.sold) =>
               /\ S.attempts <= MAX_SELL_RETRIES
               /\ S.retries <= MAX_SELL_RETRIES
               /\ S.pc = "done" =>
                     /\ S.out = "exhausted"
                     /\ S.attempts = MAX_SELL_RETRIES
                     /\ S.nThrown = S.attempts
                     /\ S.nBackoff = S.attempts
                     /\ S.retries = MAX_SELL_RETRIES

\* a sell gave up after the largest budget, every attempt having thrown
C4_Witness ==
    \E s \in SellIds :
        /\ MAX_SELL_RETRIES = MaxSellRetries
        /\ sellTask[s].pc = "done" /\ sellTask[s].out = "exhausted"
        /\ sellTask[s].nConfErr = 0
        /\ sellTask[s].nThrown = MaxSellRetries
        /\ sellTask[s].nBackoff = MaxSellRetries

\* C5: the stages run in the order watchlist, liquidity, mint authority,
\* burn/lock, and a reject skips the later ones: an event whose quote liquidity
\* is below a non-zero MIN_POOL_SIZE (in raw units of the quote token) never
\* causes a mint-authority read, a burn query, a lock query or a buy; nor does
\* an event rejected by the watchlist; and stage 4 and buy come only after the
\* mint-authority read when that filter is on.
C5_ShortCircuit ==
    \A id \in PoolIds :
        LET t == poolTask[id]
            untouched == t.nMint = 0 /\ t.nBurn = 0 /\ t.nLock = 0 /\ t.nDelay = 0
                         /\ ~t.buyCalled /\ t.nSubmit = 0
        IN  /\ ( /\ t.spawns > 0
                 /\ MIN_POOL_SIZE # 0
                 /\ t.liq < MIN_POOL_SIZE * Pow10(quoteTokenDecimals) )
                   => ( untouched /\ t.pc = "done" /\ t.out \in {"rejWatch", "rejLiq"} )
            /\ t.out = "rejWatch" => untouched
            /\ ( CHECK_IF_MINT_IS_RENOUNCED
                 /\ (t.nBurn > 0 \/ t.nLock > 0 \/ t.inStage4 \/ t.buyCalled) )
                   => t.nMint = 1

\* an event below the threshold was rejected with every later filter switched on
\* and the watchlist letting it through
C5_Witness ==
    \E id \in PoolIds :
        /\ poolTask[id].out = "rejLiq"
        /\ MIN_POOL_SIZE # 0
        /\ poolTask[id].liq < MIN_POOL_SIZE * Pow10(quoteTokenDecimals)
        /\ CHECK_IF_MINT_IS_RENOUNCED /\ CHECK_IF_IS_BURNED /\ CHECK_IF_IS_LOCKED
        /\ TRY_COUNT_FOR_BURNED_AND_LOCKED_CHECK > 0

\* C6: buy is called for a pool event only if every enabled sub-check (burn,
\* lock) was observed satisfied by a query of that event's task.
C6_EnabledChecksSatisfied ==
    \A id \in PoolIds :
        poolTask[id].buyCalled =>
            /\ CHECK_IF_IS_BURNED => poolTask[id].sawBurned
            /\ CHECK_IF_IS_LOCKED => poolTask[id].sawLocked

\* C7: with CHECK_IF_MINT_IS_RENOUNCED on, stage 4 and buy are reached only
\* after the authority read returned data with mintAuthorityOption = 0; a read
\* that throws, finds no data or shows an authority ends the task as a reject.
C7_RenouncedOnly ==
    CHECK_IF_MINT_IS_RENOUNCED =>
        \A id \in PoolIds :
            LET t == poolTask[id]
            IN  /\ ( t.inStage4 \/ t.nBurn > 0 \/ t.nLock > 0 \/ t.buyCalled
                     \/ t.out \in {"rejBurn", "rejLock", "escaped"} )
                       => t.mintAns = Answer("data", 0)
                /\ ( t.mintAns.kind \in {"throw", "none"}
                     \/ (t.mintAns.kind = "data" /\ t.mintAns.val # 0) )
                       => ( t.pc = "done" /\ t.out = "rejMint" )

\* an authority read threw and the event was rejected
C7_Witness ==
    /\ CHECK_IF_MINT_IS_RENOUNCED
    /\ \E id \in PoolIds :
          poolTask[id].mintAns.kind = "throw" /\ poolTask[id].out = "rejMint"

\* C8: with CHECK_IF_IS_LOCKED on and no lock query returning true, buy is never
\* called, and a task that ends its loop rejected has made exactly
\* TRY_COUNT_FOR_BURNED_AND_LOCKED_CHECK attempts, each with one lock query.
C8_LockNeverTrue ==
    \A id \in PoolIds :
        LET t == poolTask[id]
        IN  (CHECK_IF_IS_LOCKED /\ ~t.sawLocked) =>
               /\ ~t.buyCalled
               /\ t.nLock <= TRY_COUNT_FOR_BURNED_AND_LOCKED_CHECK
               /\ t.out \in {"rejLock", "rejBurn"} =>
                     /\ t.i = TRY_COUNT_FOR_BURNED_AND_LOCKED_CHECK
                     /\ t.nLock = TRY_COUNT_FOR_BURNED_AND_LOCKED_CHECK
                     /\ t.nDelay = TRY_COUNT_FOR_BURNED_AND_LOCKED_CHECK

\* the largest budget was used up by lock queries that all returned false
C8_Witness ==
    \E id \in PoolIds :
        /\ CHECK_IF_IS_LOCKED /\ ~CHECK_IF_IS_BURNED
        /\ TRY_COUNT_FOR_BURNED_AND_LOCKED_CHECK = MaxTryCount
        /\ poolTask[id].out = "rejLock"
        /\ poolTask[id].nLock = MaxTryCount

\* C9: no exception escapes a spawned task: a burn or lock query that fails
\* ends the task as a reject, never as a rejected promise nobody handles.
C9_NoEscape ==
    \A id \in PoolIds : poolTask[id].out # "escaped"

BuyFailures == {"buyFailed", "buyUnconfirmed"}

\* the awaits of buy: lines 336, 355, 375 and 379
BuyAwaits == {"buyFetch", "buyBlockhash", "buySend", "buyConfirm"}

\* C12: for one pool event the buy transaction is submitted at most once and
\* its confirmation is asked for at most once, after the submission; a task
\* that called buy never ends with an exception escaping; and the step on which
\* a buy suspended at an await fails changes nothing that other tasks see: the
\* registries, the stage-4 counter, the other tasks and the cache records of
\* other mints.
C12_BuyOnce ==
    [][ \A id \in PoolIds :
          /\ poolTask'[id].nSubmit <= 1
          /\ poolTask'[id].nConfirm <= poolTask'[id].nSubmit
          /\ poolTask'[id].buyCalled => poolTask'[id].out # "escaped"
          /\ (poolTask[id].pc \in BuyAwaits /\ poolTask'[id].out \in BuyFailures)
                => /\ poolTask'[id].pc = "done"
                   /\ UNCHANGED << existingLiquidityPools, existingOpenBookMarkets,
                                   threadSize, snipeList >>
                   /\ \A o \in PoolIds \ {id} : poolTask'[o] = poolTask[o]
                   /\ \A m \in DOMAIN existingTokenAccounts :
                          m # poolTask'[id].mint =>
                             /\ m \in DOMAIN existingTokenAccounts'
                             /\ existingTokenAccounts'[m] = existingTokenAccounts[m]
      ]_vars

\* one buy failed at its confirmation after one submission, while the buy of
\* the other pool went through
C12_Witness ==
    \E a, b \in PoolIds :
        /\ poolTask[a].out = "buyUnconfirmed"
        /\ poolTask[a].nSubmit = 1 /\ poolTask[a].nConfirm = 1
        /\ poolTask[b].out = "bought"

\* C13: with USE_SNIPE_LIST set, buy is called only for an event whose base
\* mint was on the watchlist when the raydium callback started its
\* qualification, and that snapshot alone decides the watchlist filter: a mint
\* not on it is rejected there with no query made, a mint on it is never
\* rejected by the filter, whatever a later reload puts in the list.  With
\* USE_SNIPE_LIST unset the filter rejects nothing.
C13_WatchlistSnapshot ==
    \A id \in PoolIds :
        LET t == poolTask[id]
        IN  t.pc # "idle" =>
              IF USE_SNIPE_LIST
              THEN /\ t.buyCalled => t.listed
                   /\ t.listed => t.out # "rejWatch"
                   /\ ~t.listed => /\ t.pc = "done" /\ t.out = "rejWatch"
                                   /\ t.nMint = 0 /\ t.nBurn = 0 /\ t.nLock = 0
              ELSE t.out # "rejWatch"

\* buy was called for a mint that was listed when its event arrived and that
\* a reload took off the list while the mint-authority read was pending
C13_Witness ==
    \E id \in PoolIds :
        /\ USE_SNIPE_LIST
        /\ poolTask[id].buyCalled /\ poolTask[id].listed /\ poolTask[id].nMint = 1
        /\ ~Includes(snipeList, poolTask[id].mint)

\* the quote presets init knows (lines 93 and 102)
SupportedQuoteMints == {"WSOL", "USDC"}

\* C14: when startup fails no subscription is ever registered and no event is
\* processed.  init fails exactly when the quote preset is unsupported or the
\* wallet holds no account of the quote token; whenever the program is not
\* listening, there is no subscription, both registries are empty, no pool,
\* market or sell task was ever spawned.
C14_FailedStartupIsInert ==
    /\ QUOTE_MINT \notin SupportedQuoteMints => phase # "listening"
    /\ (phase # "start" /\ ~Has(existingTokenAccounts, QuoteMintKey)) => phase = "failed"
    /\ phase # "listening" =>
          /\ subscriptions = {}
          /\ existingLiquidityPools = {} /\ existingOpenBookMarkets = {}
          /\ \A id \in PoolIds : poolTask[id] = IdleTask
          /\ \A k \in MarketIds : marketSpawns[k] = 0
          /\ \A x \in SellIds : sellTask[x] = IdleSell

\* init threw at line 140: the wallet holds an account of another mint, which
\* is already cached, but none of the quote token
C14_Witness ==
    /\ phase = "failed"
    /\ QUOTE_MINT \in SupportedQuoteMints
    /\ Has(existingTokenAccounts, "m1")
    /\ ~Has(existingTokenAccounts, QuoteMintKey)

\* C15: in sell a confirmation that carries an error is handled like a thrown
\* attempt: every attempt that threw or was confirmed with an error is followed
\* by the backoff wait, and once the wait is over by one increment of retries.
C15_ConfirmErrorLikeThrow ==
    \A x \in SellIds :
        LET S == sellTask[x]
        IN  /\ S.nBackoff = S.nThrown + S.nConfErr
            /\ S.retries = S.nBackoff - (IF S.pc = "backoff" THEN 1 ELSE 0)

\* C16: the polling loop stops on the attempt on which the last enabled
\* sub-check becomes true.  A sub-check is queried once on every attempt until
\* it is satisfied, so that attempt is the nBurn-th or the nLock-th: once every
\* enabled sub-check is satisfied the task has started no later attempt and no
\* later sleep, that is, it has slept at most once per attempt made until then.
C16_EarlyExit ==
    \A id \in PoolIds :
        LET t == poolTask[id]
        IN  ( /\ CHECK_IF_IS_BURNED => t.burned
              /\ CHECK_IF_IS_LOCKED => t.locked )
            => (t.nDelay <= t.nBurn \/ t.nDelay <= t.nLock)

\* C17: buy resolves missing market metadata before it builds the swap, also
\* for a record that exists without it (one init made from a wallet account):
\* once buy was called, the record of the base mint carries market metadata,
\* unless the fetch of the market is still pending or has thrown.
C17_FetchesMissingMarket ==
    \A id \in PoolIds :
        LET t == poolTask[id]
        IN  ( /\ t.buyCalled
              /\ ~( /\ Has(existingTokenAccounts, t.mint)
                    /\ existingTokenAccounts[t.mint].market # None ) )
            => (t.nFetch >= 1 /\ ~t.fetched)

\* C18: checkBurned answers true when the account is missing or the decoded
\* balance is not positive, and false for a positive balance: after a burn
\* query that did not throw, the loop's burned flag is true exactly when the
\* query found no account or a balance of zero.
C18_ZeroBalanceIsBurned ==
    \A id \in PoolIds :
        LET t == poolTask[id]
        IN  t.burnAns.kind \in {"none", "data"} =>
               (t.burned <=> (t.burnAns.kind = "none" \/ t.burnAns.val <= 0))

\* the two returns of sell for a mint it cannot sell (lines 418-425)
SellRejections == {"noAccount", "noPoolKeys"}

\* C19: a sell for a mint with no cache record, or with a record without pool
\* keys, returns having built and submitted nothing and without a retry; the
\* lookup is made when the pre-sell delay is over, never before it, so a sell
\* that resumes from the delay while the record carries pool keys goes on to
\* its first attempt; and a sell that made an attempt found pool keys.
C19_SellNeedsPoolKeys ==
    [][ \A x \in SellIds :
          LET S == sellTask'[x]
          IN  /\ S.out \in SellRejections =>
                    /\ S.pc = "done"
                    /\ S.attempts = 0 /\ S.nSubmit = 0 /\ S.nBackoff = 0
                    /\ AUTO_SELL_DELAY > 0 => S.delayed
              /\ S.attempts >= 1 => HasPoolKeys(existingTokenAccounts', S.mint)
              /\ ( /\ sellTask[x].pc = "delay" /\ S.pc # "delay"
                    /\ HasPoolKeys(existingTokenAccounts, S.mint) )
                  => S.out \notin SellRejections
              /\ ( /\ sellTask[x].pc = "delay" /\ S.pc # "delay"
                    /\ ~HasPoolKeys(existingTokenAccounts, S.mint) )
                  => S.out \in SellRejections
      ]_vars

\* a sell was called when the mint had no pool keys, a buy attached them
\* during the pre-sell delay, and the sell went on to submit
C19_Witness ==
    \E x \in SellIds :
        /\ AUTO_SELL_DELAY > 0
        /\ ~sellTask[x].keysAtStart /\ sellTask[x].delayed
        /\ sellTask[x].nSubmit >= 1

\* C20: threadSize is never negative and always equals the number of tasks
\* inside the stage-4 block of checkBurnedAndLockedAndBuy; in particular it is
\* 0 whenever no task is there, however the tasks left the block.
C20_ThreadSizeCountsStage4 ==
    /\ threadSize >= 0
    /\ threadSize = Cardinality({ id \in PoolIds : poolTask[id].inStage4 })

\* C21: a pool notification whose open time is not later than the start
\* timestamp starts nothing and registers nothing, however often it comes: a
\* pool id is in the registry only with one task spawned from a notification
\* opened after start, a pool id outside the registry has no task, and a step
\* that drops a notification of an unregistered pool leaves the registry, the
\* tasks, the stage-4 counter and the cache as they were.  Such drops do not
\* keep a later notification of the same pool from being admitted, once.
C21_StaleNeverAdmitted ==
    [][ \A id \in PoolIds :
          /\ id \in existingLiquidityPools' =>
                /\ poolTask'[id].spawns = 1
                /\ poolTask'[id].openTime > RunTimestamp
          /\ id \notin existingLiquidityPools' => poolTask'[id] = IdleTask
          /\ feed'.stale[id] # feed.stale[id] =>
                /\ id \notin existingLiquidityPools'
                /\ UNCHANGED << existingLiquidityPools, poolTask, threadSize,
                                existingTokenAccounts >>
      ]_vars

\* a pool was delivered MaxStale times with an open time not after start, and
\* then admitted once on a notification opened after start
C21_Witness ==
    \E id \in PoolIds :
        /\ feed.stale[id] = MaxStale
        /\ id \in existingLiquidityPools
        /\ poolTask[id].spawns = 1
        /\ poolTask[id].openTime = RunTimestamp + 1

=============================================================================
